---- MODULE Spec2Model ----
(***************************************************************************)
(* gaia::JIT (Sources/JIT/JIT.cpp): the module-handle registry and the     *)
(* symbol resolution of the JIT manager, with the C shim that exposes it.  *)
(***************************************************************************)
EXTENDS Naturals, Sequences, FiniteSets, TLC

\* Size of the universe of ModuleHandle values (list-node identities of the
\* object layer); a handle value that is not resident may be handed out again.
MaxHandles == 3

\* Logical symbol names used by callers and by IR modules.
Names == {"f"}

\* How an IR module treats a name: not mentioned, declared only (an undefined
\* reference for the linker to resolve), defined with external linkage, or
\* defined with private (non-exported) linkage.
Linkage == {"none", "declared", "exported", "private"}

\* The IR modules a caller may submit.
Modules == [Names -> Linkage]

\* DataLayout::getGlobalPrefix of the selected target: none (ELF) or '_' (Mach-O).
GlobalPrefixes == {"", "_"}

Handles == 1 .. MaxHandles

VARIABLES
    dataLayout,      \* JIT::dataLayout: the global prefix of the target
    processSymbols,  \* the names the host process exports
    compileLayer,    \* JIT::compileLayer: resident artifacts, by handle
    moduleHandles,   \* JIT::moduleHandles
    status,          \* "ok", or "crashed" once undefined behaviour ended the process
    issued,          \* the handles addModule has returned so far, each in a wrapper
    call             \* the last C-shim call with its arguments and its outcome

vars == <<dataLayout, processSymbols, compileLayer, moduleHandles, status, issued, call>>

----------------------------------------------------------------------------
\* llvm::orc::JITSymbol: an address and flags; the null symbol has address 0.

NullSymbol == [address |-> 0, flags |-> "None"]

JITSymbol(address, flags) == [address |-> address, flags |-> flags]

\* JITSymbol::operator bool
IsSymbol(symbol) == symbol.address # 0

\* Address of the host process's definition of a name.
ProcessAddress(name) == Len(name)

\* Address of the definition of a name in the executable memory that the
\* SectionMemoryManager of the artifact with this handle allocated: apart
\* from the host's addresses and from those of the other resident artifacts.
SectionAddress(handle, name) == 2 * handle + Len(name)

\* JIT::mangle: Mangler::getNameWithPrefix puts the target's global prefix
\* in front of the name.
mangle(name) == dataLayout \o name

\* compileLayer.addModuleSet: the symbol table of the compiled artifact, keyed
\* by the mangled names of the module's definitions.
Compile(module, handle) ==
    LET defined == {n \in Names : module[n] \in {"exported", "private"}}
    IN  [m \in {mangle(n) : n \in defined} |->
            LET n == CHOOSE x \in defined : mangle(x) = m
            IN  JITSymbol(SectionAddress(handle, n),
                          IF module[n] = "exported" THEN "Exported" ELSE "None")]

\* compileLayer.findSymbolIn(handle, name, ExportedSymbolsOnly)
findSymbolInAnyLinkage(layer, handle, name, exportedSymbolsOnly) ==
    IF handle \in DOMAIN layer /\ name \in DOMAIN layer[handle]
    THEN layer[handle][name]
    ELSE NullSymbol

findSymbolIn(layer, handle, name, exportedSymbolsOnly) ==
    IF handle \in DOMAIN layer /\ name \in DOMAIN layer[handle]
       /\ (layer[handle][name].flags = "Exported" \/ ~exportedSymbolsOnly)
    THEN layer[handle][name]
    ELSE NullSymbol

\* RTDyldMemoryManager::getSymbolAddressInProcess: 0 when the host process
\* does not define the (mangled) name.
getSymbolAddressInProcess(name) ==
    IF \E n \in processSymbols : mangle(n) = name
    THEN ProcessAddress(CHOOSE n \in processSymbols : mangle(n) = name)
    ELSE 0

\* The loop of JIT::findMangledSymbol over moduleHandles.rbegin()..rend():
\* i is the position of the handle looked at, 0 when the loop is over.
RECURSIVE searchModulesFrom(_, _, _, _)
searchModulesFrom(handles, layer, i, name) ==
    IF i = 0
    THEN NullSymbol
    ELSE LET symbol == findSymbolIn(layer, handles[i], name, TRUE)
         IN  IF IsSymbol(symbol)
             THEN symbol
             ELSE searchModulesFrom(handles, layer, i - 1, name)

\* The same loop run from begin() to end().
RECURSIVE searchForwardFrom(_, _, _, _)
searchForwardFrom(handles, layer, i, name) ==
    IF i > Len(handles)
    THEN NullSymbol
    ELSE LET symbol == findSymbolIn(layer, handles[i], name, TRUE)
         IN  IF IsSymbol(symbol)
             THEN symbol
             ELSE searchForwardFrom(handles, layer, i + 1, name)

searchForward(handles, layer, name) == searchForwardFrom(handles, layer, 1, name)

searchModules(handles, layer, name) ==
    searchModulesFrom(handles, layer, Len(handles), name)

\* The host-process tier of JIT::findMangledSymbol.
searchProcessUnflagged(name) ==
    LET symbolAddress == getSymbolAddressInProcess(name)
    IN  IF symbolAddress # 0 THEN JITSymbol(symbolAddress, "None") ELSE NullSymbol

searchProcess(name) ==
    LET symbolAddress == getSymbolAddressInProcess(name)
    IN  IF symbolAddress # 0 THEN JITSymbol(symbolAddress, "Exported") ELSE NullSymbol

\* JIT::findMangledSymbol
findMangledSymbolProcessFirst(name) ==
    LET symbol == searchProcess(name)
    IN  IF IsSymbol(symbol) THEN symbol
        ELSE searchModules(moduleHandles, compileLayer, name)

findMangledSymbol(name) ==
    LET symbol == searchModules(moduleHandles, compileLayer, name)
    IN  IF IsSymbol(symbol) THEN symbol ELSE searchProcess(name)

\* JIT::findSymbol
findSymbol(name) == findMangledSymbol(mangle(name))

\* llvm::RuntimeDyld::SymbolInfo: an address and flags; SymbolInfo(nullptr)
\* has address 0.
SymbolInfo(address, flags) == [address |-> address, flags |-> flags]

NullSymbolInfo == [address |-> 0, flags |-> "None"]

\* The first lambda of the resolver that JIT::addModule hands to the compile
\* layer: called with the mangled name of an undefined reference.
resolverMangling(name) ==
    LET symbol == findSymbol(name)
    IN  IF IsSymbol(symbol) THEN SymbolInfo(symbol.address, symbol.flags)
        ELSE NullSymbolInfo

resolver(name) ==
    LET symbol == findMangledSymbol(name)
    IN  IF IsSymbol(symbol) THEN SymbolInfo(symbol.address, symbol.flags)
        ELSE NullSymbolInfo

\* The caller's LLVMModuleRef variable: null, or a reference to a module.
NullModuleRef == {}

ModuleRef(module) == {module}

\* compileLayer.addModuleSet links the module: it asks the resolver for the
\* mangled name of every reference the module declares and does not define.
Link(module) ==
    [m \in {mangle(n) : n \in {x \in Names : module[x] = "declared"}} |-> resolver(m)]

----------------------------------------------------------------------------
\* std::find(moduleHandles.begin(), moduleHandles.end(), moduleHandle):
\* the position of the first occurrence, Len + 1 for end().
find(handles, handle) ==
    IF \E i \in 1 .. Len(handles) : handles[i] = handle
    THEN CHOOSE i \in 1 .. Len(handles) :
            handles[i] = handle /\ \A j \in 1 .. (i - 1) : handles[j] # handle
    ELSE Len(handles) + 1

\* moduleHandles.push_back(moduleHandle)
push_front(handles, handle) == <<handle>> \o handles

push_back(handles, handle) == Append(handles, handle)

\* std::vector::erase(position) for a position before end().
eraseBack(handles, position) == SubSeq(handles, 1, Len(handles) - 1)

eraseUpTo(handles, position) == SubSeq(handles, position + 1, Len(handles))

erase(handles, position) ==
    SubSeq(handles, 1, position - 1) \o SubSeq(handles, position + 1, Len(handles))

\* compileLayer.removeModuleSet(handle) for a resident handle.
removeModuleSetKeeping(layer, handle) == layer

removeModuleSet(layer, handle) ==
    [h \in DOMAIN layer \ {handle} |-> layer[h]]

NoArtifact == [m \in {} |-> NullSymbol]

NoResolution == [m \in {} |-> NullSymbolInfo]

NoCall == [op |-> "none", name |-> "", handle |-> 0, position |-> 0,
           symbol |-> NullSymbol, address |-> 0, released |-> NoArtifact,
           moduleRef |-> NullModuleRef, resolved |-> NoResolution]

TypeOK ==
    /\ dataLayout \in GlobalPrefixes
    /\ processSymbols \subseteq Names
    /\ DOMAIN compileLayer \subseteq Handles
    /\ moduleHandles \in Seq(Handles)
    /\ status \in {"ok", "crashed"}
    /\ issued \subseteq Handles
    /\ call.op \in {"none", "add", "remove", "dispose", "find"}

\* JIT::JIT and GaiaCreateJIT: a target is selected, the layers and the
\* registry are empty, the host process's symbols are loaded.
Init ==
    /\ dataLayout \in GlobalPrefixes
    /\ processSymbols \in SUBSET Names
    /\ compileLayer = <<>>
    /\ moduleHandles = <<>>
    /\ status = "ok"
    /\ issued = {}
    /\ call = NoCall

\* An addModule that registers the new handle twice.
AddModuleRegisteredTwice(module, moduleHandle) ==
    /\ status = "ok"
    /\ moduleHandle \notin DOMAIN compileLayer
    /\ compileLayer' = [h \in DOMAIN compileLayer \cup {moduleHandle} |->
                            IF h = moduleHandle THEN Compile(module, moduleHandle)
                            ELSE compileLayer[h]]
    /\ moduleHandles' = push_back(push_back(moduleHandles, moduleHandle), moduleHandle)
    /\ issued' = issued \cup {moduleHandle}
    /\ call' = [NoCall EXCEPT !.op = "add", !.handle = moduleHandle,
                              !.moduleRef = NullModuleRef,
                              !.resolved = Link(module)]
    /\ UNCHANGED <<dataLayout, processSymbols, status>>

\* A GaiaJITAddModule that leaves the caller's reference as it was.
AddModuleKeepingReference(module, moduleHandle) ==
    /\ status = "ok"
    /\ moduleHandle \notin DOMAIN compileLayer
    /\ compileLayer' = [h \in DOMAIN compileLayer \cup {moduleHandle} |->
                            IF h = moduleHandle THEN Compile(module, moduleHandle)
                            ELSE compileLayer[h]]
    /\ moduleHandles' = push_back(moduleHandles, moduleHandle)
    /\ issued' = issued \cup {moduleHandle}
    /\ call' = [NoCall EXCEPT !.op = "add", !.handle = moduleHandle,
                              !.moduleRef = ModuleRef(module),
                              !.resolved = Link(module)]
    /\ UNCHANGED <<dataLayout, processSymbols, status>>

\* GaiaJITAddModule / JIT::addModule: the shim takes the module out of the
\* caller's reference and sets the reference to null; the compile layer
\* compiles and links the module into a new resident artifact and names it by
\* a handle no resident artifact has; the handle is pushed to the back of
\* moduleHandles and returned in a new wrapper.
GaiaJITAddModule(module, moduleHandle) ==
    /\ status = "ok"
    /\ moduleHandle \notin DOMAIN compileLayer
    /\ compileLayer' = [h \in DOMAIN compileLayer \cup {moduleHandle} |->
                            IF h = moduleHandle THEN Compile(module, moduleHandle)
                            ELSE compileLayer[h]]
    /\ moduleHandles' = push_back(moduleHandles, moduleHandle)
    /\ issued' = issued \cup {moduleHandle}
    /\ call' = [NoCall EXCEPT !.op = "add", !.handle = moduleHandle,
                              !.moduleRef = NullModuleRef,
                              !.resolved = Link(module)]
    /\ UNCHANGED <<dataLayout, processSymbols, status>>

\* A removeModule that returns without touching the registry or the layer.
RemoveIgnored(moduleHandle) ==
    /\ status = "ok"
    /\ moduleHandle \in issued
    /\ find(moduleHandles, moduleHandle) <= Len(moduleHandles)
    /\ call' = [NoCall EXCEPT !.op = "remove", !.handle = moduleHandle,
                              !.position = find(moduleHandles, moduleHandle),
                              !.released = compileLayer[moduleHandle]]
    /\ UNCHANGED <<dataLayout, processSymbols, compileLayer, moduleHandles, status, issued>>

\* GaiaJITRemoveModule / JIT::removeModule with a handle std::find finds.
RemoveRegistered(moduleHandle) ==
    LET position == find(moduleHandles, moduleHandle)
    IN  /\ status = "ok"
        /\ moduleHandle \in issued
        /\ position <= Len(moduleHandles)
        /\ moduleHandles' = erase(moduleHandles, position)
        /\ compileLayer' = removeModuleSet(compileLayer, moduleHandle)
        /\ call' = [NoCall EXCEPT !.op = "remove", !.handle = moduleHandle,
                                  !.position = position,
                                  !.released = compileLayer[moduleHandle]]
        /\ UNCHANGED <<dataLayout, processSymbols, status, issued>>

\* JIT::removeModule with a handle std::find does not find: erase(end()) is
\* undefined behaviour, and so is removeModuleSet of a handle that is not
\* resident. The outcomes: the process dies; erase(end()) leaves the vector
\* alone; erase(end()) takes the last element off the vector. Where the
\* process lives on, removeModuleSet releases the handle's artifact if it is
\* resident.
RemoveUnknownCrash(moduleHandle) ==
    /\ status = "ok"
    /\ moduleHandle \in issued
    /\ find(moduleHandles, moduleHandle) > Len(moduleHandles)
    /\ status' = "crashed"
    /\ call' = [NoCall EXCEPT !.op = "remove", !.handle = moduleHandle]
    /\ UNCHANGED <<dataLayout, processSymbols, compileLayer, moduleHandles, issued>>

RemoveUnknownNoErase(moduleHandle) ==
    /\ status = "ok"
    /\ moduleHandle \in issued
    /\ find(moduleHandles, moduleHandle) > Len(moduleHandles)
    /\ compileLayer' = removeModuleSet(compileLayer, moduleHandle)
    /\ call' = [NoCall EXCEPT !.op = "remove", !.handle = moduleHandle]
    /\ UNCHANGED <<dataLayout, processSymbols, moduleHandles, status, issued>>

RemoveUnknownPopBack(moduleHandle) ==
    /\ status = "ok"
    /\ moduleHandle \in issued
    /\ find(moduleHandles, moduleHandle) > Len(moduleHandles)
    /\ moduleHandles # <<>>
    /\ moduleHandles' = SubSeq(moduleHandles, 1, Len(moduleHandles) - 1)
    /\ compileLayer' = removeModuleSet(compileLayer, moduleHandle)
    /\ call' = [NoCall EXCEPT !.op = "remove", !.handle = moduleHandle]
    /\ UNCHANGED <<dataLayout, processSymbols, status, issued>>

\* GaiaJITRemoveModule with a handle that is not in moduleHandles.
RemoveUnknown(moduleHandle) ==
    \/ RemoveUnknownCrash(moduleHandle)
    \/ RemoveUnknownNoErase(moduleHandle)
    \/ RemoveUnknownPopBack(moduleHandle)

\* A dispose that takes the module out with the wrapper.
DisposeRemovingModule(moduleHandle) ==
    /\ status = "ok"
    /\ moduleHandle \in issued
    /\ moduleHandles' = SelectSeq(moduleHandles, LAMBDA h : h # moduleHandle)
    /\ compileLayer' = removeModuleSet(compileLayer, moduleHandle)
    /\ call' = [NoCall EXCEPT !.op = "dispose", !.handle = moduleHandle]
    /\ UNCHANGED <<dataLayout, processSymbols, status, issued>>

\* GaiaJITDisposeModuleHandle: deletes a wrapper that GaiaJITAddModule
\* returned. The wrapper is the caller's heap object and no part of the JIT;
\* which wrappers are still alive is the caller's to track.
GaiaJITDisposeModuleHandle(moduleHandle) ==
    /\ status = "ok"
    /\ moduleHandle \in issued
    /\ call' = [NoCall EXCEPT !.op = "dispose", !.handle = moduleHandle]
    /\ UNCHANGED <<dataLayout, processSymbols, compileLayer, moduleHandles, status, issued>>

\* A lookup that treats a miss as a failure of the process.
FindSymbolAddressOrFail(name) ==
    LET symbol == findSymbol(name)
    IN  /\ status = "ok"
        /\ status' = IF IsSymbol(symbol) THEN "ok" ELSE "crashed"
        /\ call' = [NoCall EXCEPT !.op = "find", !.name = name, !.symbol = symbol,
                                  !.address = symbol.address]
        /\ UNCHANGED <<dataLayout, processSymbols, compileLayer, moduleHandles, issued>>

\* A lookup that moves the module that answered to the back of the registry.
FindSymbolAddressReordering(name) ==
    LET symbol == findSymbol(name)
        others == SelectSeq(moduleHandles,
                            LAMBDA h : findSymbolIn(compileLayer, h, mangle(name), TRUE) # symbol)
        answering == SelectSeq(moduleHandles,
                               LAMBDA h : findSymbolIn(compileLayer, h, mangle(name), TRUE) = symbol)
    IN  /\ status = "ok"
        /\ moduleHandles' = others \o answering
        /\ call' = [NoCall EXCEPT !.op = "find", !.name = name, !.symbol = symbol,
                                  !.address = IF IsSymbol(symbol) THEN symbol.address ELSE 0]
        /\ UNCHANGED <<dataLayout, processSymbols, compileLayer, status, issued>>

\* GaiaJITFindSymbolAddress / JIT::findSymbol
GaiaJITFindSymbolAddress(name) ==
    LET symbol == findSymbol(name)
    IN  /\ status = "ok"
        /\ call' = [NoCall EXCEPT !.op = "find", !.name = name, !.symbol = symbol,
                                  !.address = IF IsSymbol(symbol) THEN symbol.address ELSE 0]
        /\ UNCHANGED <<dataLayout, processSymbols, compileLayer, moduleHandles, status, issued>>

Next ==
    \/ \E module \in Modules, h \in Handles : GaiaJITAddModule(module, h)
    \/ \E h \in Handles : RemoveRegistered(h)
    \/ \E h \in Handles : RemoveUnknownCrash(h)
    \/ \E h \in Handles : RemoveUnknownNoErase(h)
    \/ \E h \in Handles : RemoveUnknownPopBack(h)
    \/ \E h \in Handles : GaiaJITDisposeModuleHandle(h)
    \/ \E name \in Names : GaiaJITFindSymbolAddress(name)

Spec == Init /\ [][Next]_vars

\* The calls of a caller that hands GaiaJITRemoveModule only handles that are
\* in the registry.
NextRegistered ==
    \/ \E module \in Modules, h \in Handles : GaiaJITAddModule(module, h)
    \/ \E h \in Handles : RemoveRegistered(h)
    \/ \E h \in Handles : GaiaJITDisposeModuleHandle(h)
    \/ \E name \in Names : GaiaJITFindSymbolAddress(name)

SpecRegistered == Init /\ [][NextRegistered]_vars

----------------------------------------------------------------------------
\* What the registry holds, said without the search loop.

\* The artifact of the handle at a registry position defines the mangled
\* name, with any linkage.
DefinesAt(i, m) ==
    /\ moduleHandles[i] \in DOMAIN compileLayer
    /\ m \in DOMAIN compileLayer[moduleHandles[i]]

\* The definition of the mangled name in the artifact at a registry position.
DefinitionAt(i, m) == compileLayer[moduleHandles[i]][m]

ExportsAt(i, m) == DefinesAt(i, m) /\ DefinitionAt(i, m).flags = "Exported"

Definers(m) == {i \in 1 .. Len(moduleHandles) : DefinesAt(i, m)}

Exporters(m) == {i \in 1 .. Len(moduleHandles) : ExportsAt(i, m)}

\* The most recently added of a non-empty set of registry positions.
Newest(positions) == CHOOSE i \in positions : \A j \in positions : j <= i

ProcessDefines(m) == \E n \in processSymbols : mangle(n) = m

ProcessSymbol(m) ==
    JITSymbol(ProcessAddress(CHOOSE n \in processSymbols : mangle(n) = m), "Exported")

\* The last call was a lookup that ran to its end.
Found == call.op = "find" /\ status = "ok"

\* The last call was a removal of a handle that was in the registry.
RemovedRegistered == call.op = "remove" /\ call.position > 0

\* The last call was a removal of a handle that was not in the registry.
RemovedUnknown == call.op = "remove" /\ call.position = 0

----------------------------------------------------------------------------
\* C1 as stated: a lookup of a name that some registered module defines
\* returns the definition of the most recently added registered module that
\* defines the mangled name, whatever the linkage of that definition.
C1_NewestDefinerWins ==
    Found /\ Definers(mangle(call.name)) # {}
        => call.symbol = DefinitionAt(Newest(Definers(mangle(call.name))), mangle(call.name))

\* C1 amended: a lookup of a name that some registered module exports
\* returns the definition of the most recently added registered module that
\* exports the mangled name, also when older registered modules export it.
C1_NewestExporterWins ==
    Found /\ Exporters(mangle(call.name)) # {}
        => call.symbol = DefinitionAt(Newest(Exporters(mangle(call.name))), mangle(call.name))

\* C1 witness: a lookup answered by the newest of at least two exporters,
\* which is not the first module of the registry.
C1_Witness ==
    /\ Found
    /\ Cardinality(Exporters(mangle(call.name))) >= 2
    /\ Newest(Exporters(mangle(call.name))) > 1
    /\ call.symbol = DefinitionAt(Newest(Exporters(mangle(call.name))), mangle(call.name))

\* The step of C2: module b is removed from the registry, a was added before
\* b, and no registered module other than a and b defines the name.
C2_Step(a, b, n) ==
    /\ RemoveRegistered(moduleHandles[b])
    /\ a < b
    /\ \A i \in Definers(mangle(n)) : i \in {a, b}

\* C2 as stated: when a and b both define the name, with any linkage, the
\* lookup returns b's definition before b is removed and a's after.
C2_ShadowingUndoneForDefiners ==
    [][\A n \in Names : \A b \in 1 .. Len(moduleHandles) : \A a \in 1 .. Len(moduleHandles) :
          C2_Step(a, b, n) /\ DefinesAt(a, mangle(n)) /\ DefinesAt(b, mangle(n))
              => /\ findSymbol(n) = DefinitionAt(b, mangle(n))
                 /\ findSymbol(n)' = DefinitionAt(a, mangle(n))]_vars

\* C2 amended: when a and b both export the name, the lookup returns b's
\* definition before b is removed and a's definition after.
C2_ShadowingUndoneByRemoval ==
    [][\A n \in Names : \A b \in 1 .. Len(moduleHandles) : \A a \in 1 .. Len(moduleHandles) :
          C2_Step(a, b, n) /\ ExportsAt(a, mangle(n)) /\ ExportsAt(b, mangle(n))
              => /\ findSymbol(n) = DefinitionAt(b, mangle(n))
                 /\ findSymbol(n)' = DefinitionAt(a, mangle(n))]_vars

\* C2 witness: an exporter was removed from behind an older exporter, with a
\* module that does not define the name registered between the two, and the
\* older exporter is the only definer left.
C2_Witness ==
    /\ RemovedRegistered
    /\ \E n \in Names :
        /\ mangle(n) \in DOMAIN call.released
        /\ call.released[mangle(n)].flags = "Exported"
        /\ \E a \in 1 .. Len(moduleHandles) :
            /\ a + 1 < call.position
            /\ Exporters(mangle(n)) = {a}
            /\ Definers(mangle(n)) = {a}
            /\ findSymbol(n) = DefinitionAt(a, mangle(n))

\* C3: after the removal of a registered handle, a name that only the
\* removed module defined resolves to the host process's symbol when the
\* host defines the name and to the null symbol when it does not.
C3_RemovedModuleInvisible ==
    [][\A n \in Names : \A b \in 1 .. Len(moduleHandles) :
          RemoveRegistered(moduleHandles[b]) /\ Definers(mangle(n)) = {b}
              => findSymbol(n)' = IF ProcessDefines(mangle(n))
                                  THEN ProcessSymbol(mangle(n))
                                  ELSE NullSymbol]_vars

\* C3 witness: the removed module exported a name that the host defines too,
\* other modules are still registered, and the name now resolves to the host.
C3_Witness ==
    /\ RemovedRegistered
    /\ moduleHandles # <<>>
    /\ \E n \in Names :
        /\ mangle(n) \in DOMAIN call.released
        /\ call.released[mangle(n)].flags = "Exported"
        /\ Definers(mangle(n)) = {}
        /\ ProcessDefines(mangle(n))
        /\ findSymbol(n) = ProcessSymbol(mangle(n))

\* A symbol is the definition of the mangled name in some registered module.
IsModuleDefinition(symbol, m) ==
    \E i \in Definers(m) : symbol = DefinitionAt(i, m)

\* C4 as stated: while some registered module defines the name, with any
\* linkage, a lookup returns a module's definition, never the host's address.
C4_DefinersBeforeProcess ==
    Found /\ Definers(mangle(call.name)) # {}
        => /\ IsModuleDefinition(call.symbol, mangle(call.name))
           /\ call.address # ProcessAddress(call.name)

\* C4 amended: while some registered module exports the name, a lookup
\* returns a module's definition, never the host's address.
C4_ExportersBeforeProcess ==
    Found /\ Exporters(mangle(call.name)) # {}
        => /\ IsModuleDefinition(call.symbol, mangle(call.name))
           /\ call.address # ProcessAddress(call.name)

\* C4 witness: the host and a registered module both export the name and the
\* lookup returned the module's definition.
C4_Witness ==
    /\ Found
    /\ ProcessDefines(mangle(call.name))
    /\ Exporters(mangle(call.name)) # {}
    /\ IsModuleDefinition(call.symbol, mangle(call.name))

\* C5: a lookup of a name that no registered module defines and the host
\* process defines returns the host's address, flagged Exported.
C5_ProcessFallback ==
    Found /\ Definers(mangle(call.name)) = {} /\ ProcessDefines(mangle(call.name))
        => /\ call.symbol = ProcessSymbol(mangle(call.name))
           /\ call.symbol.flags = "Exported"
           /\ call.address = ProcessAddress(call.name)

\* C5 witness: the lookup on the empty registry right after construction
\* returned the host's symbol.
C5_Witness ==
    /\ Found
    /\ issued = {}
    /\ moduleHandles = <<>>
    /\ call.symbol = JITSymbol(ProcessAddress(call.name), "Exported")

\* C6: a lookup of a name that no registered module defines and the host
\* does not define returns the null symbol and the null address, and the
\* manager goes on running.
C6_MissIsNull ==
    call.op = "find" /\ Definers(mangle(call.name)) = {} /\ ~ProcessDefines(mangle(call.name))
        => /\ call.symbol = NullSymbol
           /\ call.address = 0
           /\ status = "ok"

\* C6 witness: a miss while modules are registered.
C6_Witness ==
    /\ call.op = "find"
    /\ moduleHandles # <<>>
    /\ Definers(mangle(call.name)) = {}
    /\ ~ProcessDefines(mangle(call.name))
    /\ call.symbol = NullSymbol
    /\ status = "ok"

\* C7: a removal of a handle that is not in the registry ends in an outcome
\* other than the normal completion of a removal.
C7_UnknownHandleSignalled ==
    RemovedUnknown => status # "ok"

\* C8: a removal of a handle that is not in the registry leaves the registry
\* and the resident artifacts as they were, and with them every lookup.
C8_FailedRemovalChangesNothing ==
    [][\A h \in Handles :
          RemoveUnknown(h)
              => /\ moduleHandles' = moduleHandles
                 /\ compileLayer' = compileLayer
                 /\ \A n \in Names : findSymbol(n)' = findSymbol(n)]_vars

\* The newest registered definer of the name of the last lookup defines it
\* with private linkage.
NewestDefinerIsPrivate ==
    /\ Found
    /\ Definers(mangle(call.name)) # {}
    /\ ~ExportsAt(Newest(Definers(mangle(call.name))), mangle(call.name))

\* C9 as stated: when the newest registered definer of a name defines it as
\* a non-exported symbol, the lookup returns that module's definition.
C9_PrivateDefinitionFound ==
    NewestDefinerIsPrivate
        => call.symbol = DefinitionAt(Newest(Definers(mangle(call.name))), mangle(call.name))

\* C9 amended: when the newest registered definer of a name defines it as a
\* non-exported symbol, the lookup passes over it: it returns the definition
\* of the newest registered exporter, else the host's symbol, else null.
C9_PrivateDefinitionSkipped ==
    NewestDefinerIsPrivate
        => call.symbol =
            IF Exporters(mangle(call.name)) # {}
            THEN DefinitionAt(Newest(Exporters(mangle(call.name))), mangle(call.name))
            ELSE IF ProcessDefines(mangle(call.name))
                 THEN ProcessSymbol(mangle(call.name))
                 ELSE NullSymbol

\* C9 witness: the newest definer is private, an older module exports the
\* name, and the lookup returned the older module's definition.
C9_Witness ==
    /\ NewestDefinerIsPrivate
    /\ Exporters(mangle(call.name)) # {}
    /\ call.symbol = DefinitionAt(Newest(Exporters(mangle(call.name))), mangle(call.name))

\* C10: addModule never returns a handle that an earlier addModule returned.
C10_HandlesNeverReused ==
    [][\A module \in Modules : \A h \in Handles :
          GaiaJITAddModule(module, h) => h \notin issued]_vars

\* C11: the registry never holds a handle at two positions.
C11_NoDuplicateHandles ==
    \A i \in 1 .. Len(moduleHandles) : \A j \in 1 .. Len(moduleHandles) :
        moduleHandles[i] = moduleHandles[j] => i = j

\* C11 witness: a handle was registered behind another after a handle had
\* been taken out of the registry, and it is in the registry once.
C11_Witness ==
    /\ call.op = "add"
    /\ Len(moduleHandles) >= 2
    /\ Cardinality(issued) > Len(moduleHandles)
    /\ Cardinality({i \in 1 .. Len(moduleHandles) : moduleHandles[i] = call.handle}) = 1

\* C13: addModule appends: the registry after the call is the registry
\* before it, in the same order, with the returned handle as its last
\* element, and a name the new module exports resolves to the new module.
C13_AddModuleAppends ==
    [][\A module \in Modules : \A h \in Handles :
          GaiaJITAddModule(module, h)
              => /\ Len(moduleHandles') = Len(moduleHandles) + 1
                 /\ \A i \in 1 .. Len(moduleHandles) : moduleHandles'[i] = moduleHandles[i]
                 /\ moduleHandles'[Len(moduleHandles')] = h
                 /\ call'.handle = h
                 /\ \A n \in Names :
                        module[n] = "exported"
                            => findSymbol(n)' = compileLayer'[h][mangle(n)]]_vars

\* C13 witness: a module exporting a name was appended behind two registered
\* modules, one of which exports the name too, and the name resolves to the
\* new module.
C13_Witness ==
    /\ call.op = "add"
    /\ Len(moduleHandles) >= 3
    /\ moduleHandles[Len(moduleHandles)] = call.handle
    /\ \E n \in Names :
        /\ Cardinality(Exporters(mangle(n))) >= 2
        /\ Newest(Exporters(mangle(n))) = Len(moduleHandles)
        /\ findSymbol(n) = DefinitionAt(Len(moduleHandles), mangle(n))

\* The registry after a step is the registry before it without position b.
ErasedExactly(b) ==
    /\ Len(moduleHandles') = Len(moduleHandles) - 1
    /\ \A i \in 1 .. (b - 1) : moduleHandles'[i] = moduleHandles[i]
    /\ \A i \in b .. Len(moduleHandles') : moduleHandles'[i] = moduleHandles[i + 1]

\* C14 as stated: the removal of the registered handle at position b takes
\* exactly that entry out, and every name whose newest registered definer,
\* of any linkage, is not b resolves after the removal as before it.
C14_RemovalKeepsOtherDefiners ==
    [][\A b \in 1 .. Len(moduleHandles) :
          RemoveRegistered(moduleHandles[b])
              => /\ ErasedExactly(b)
                 /\ \A n \in Names :
                        (Definers(mangle(n)) = {} \/ Newest(Definers(mangle(n))) # b)
                            => findSymbol(n)' = findSymbol(n)]_vars

\* C14 amended: the removal of the registered handle at position b takes
\* exactly that entry out, and every name whose newest registered exporter
\* is not b resolves after the removal as before it.
C14_RemovalKeepsOtherExporters ==
    [][\A b \in 1 .. Len(moduleHandles) :
          RemoveRegistered(moduleHandles[b])
              => /\ ErasedExactly(b)
                 /\ \A n \in Names :
                        (Exporters(mangle(n)) = {} \/ Newest(Exporters(mangle(n))) # b)
                            => findSymbol(n)' = findSymbol(n)]_vars

\* C14 witness: an older exporter was removed from in front of a newer one,
\* with a third module still registered before the place it had, and the
\* name resolves to the newer exporter.
C14_Witness ==
    /\ RemovedRegistered
    /\ call.position > 1
    /\ \E n \in Names :
        /\ mangle(n) \in DOMAIN call.released
        /\ call.released[mangle(n)].flags = "Exported"
        /\ Exporters(mangle(n)) # {}
        /\ Newest(Exporters(mangle(n))) >= call.position
        /\ findSymbol(n) = DefinitionAt(Newest(Exporters(mangle(n))), mangle(n))

\* C12: when GaiaJITAddModule has returned, the caller's module reference is
\* null: it refers to no module that could be submitted again.
C12_ModuleReferenceConsumed ==
    call.op = "add" => call.moduleRef = NullModuleRef /\ call.moduleRef \cap Modules = {}

\* C12 witness: a module was submitted and registered, and the caller's
\* reference is null.
C12_Witness ==
    /\ call.op = "add"
    /\ moduleHandles # <<>>
    /\ moduleHandles[Len(moduleHandles)] = call.handle
    /\ call.moduleRef = NullModuleRef

\* The registry positions before the module that the last addModule added.
DefinersBefore(m) == {i \in Definers(m) : i < Len(moduleHandles)}

ExportersBefore(m) == {i \in Exporters(m) : i < Len(moduleHandles)}

ProcessSymbolInfo(m) ==
    IF ProcessDefines(m)
    THEN SymbolInfo(ProcessSymbol(m).address, ProcessSymbol(m).flags)
    ELSE NullSymbolInfo

\* The last call was an addModule that ran to its end and registered its handle.
Added ==
    /\ call.op = "add"
    /\ moduleHandles # <<>>
    /\ moduleHandles[Len(moduleHandles)] = call.handle

\* C15 as stated: the resolver answers an undefined reference, by its
\* mangled name as it is, with the definition of the newest registered module
\* that defines the name, with any linkage, else the host's symbol, else
\* null; addModule registers and returns the handle whatever the answers.
C15_ResolverFindsDefiners ==
    call.op = "add"
        => /\ Added
           /\ \A m \in DOMAIN call.resolved :
                call.resolved[m] =
                    IF DefinersBefore(m) # {}
                    THEN SymbolInfo(DefinitionAt(Newest(DefinersBefore(m)), m).address,
                                    DefinitionAt(Newest(DefinersBefore(m)), m).flags)
                    ELSE ProcessSymbolInfo(m)

\* C15 amended: the resolver answers an undefined reference, by its mangled
\* name as it is, with the definition of the newest registered module that
\* exports the name, else the host's symbol, else null; addModule registers
\* and returns the handle whatever the answers.
C15_ResolverFindsExporters ==
    call.op = "add"
        => /\ Added
           /\ \A m \in DOMAIN call.resolved :
                call.resolved[m] =
                    IF ExportersBefore(m) # {}
                    THEN SymbolInfo(DefinitionAt(Newest(ExportersBefore(m)), m).address,
                                    DefinitionAt(Newest(ExportersBefore(m)), m).flags)
                    ELSE ProcessSymbolInfo(m)

\* C15 witness: on a target with a global prefix, a module with a reference
\* that nothing defines was added behind a registered module: the resolver
\* answered null and the handle is registered.
C15_Witness ==
    /\ Added
    /\ dataLayout = "_"
    /\ Len(moduleHandles) >= 2
    /\ \E m \in DOMAIN call.resolved : call.resolved[m] = NullSymbolInfo

\* C15 second case reached: a reference resolved to the newer of two
\* registered exporters.
C15_ResolvedToNewestExporter ==
    /\ Added
    /\ dataLayout = "_"
    /\ \E m \in DOMAIN call.resolved :
        /\ Cardinality(ExportersBefore(m)) >= 2
        /\ call.resolved[m].address = DefinitionAt(Newest(ExportersBefore(m)), m).address

\* The handles in the registry are the handles of the resident artifacts.
RegistryMatchesLayer ==
    {moduleHandles[i] : i \in 1 .. Len(moduleHandles)} = DOMAIN compileLayer

\* C16: while removeModule is called with registered handles only, the
\* handles in the registry are the handles of the resident artifacts, and an
\* artifact leaves the compile layer only in the removeModule of its handle.
C16_RegistryAndLayerInStep ==
    /\ []RegistryMatchesLayer
    /\ [][\A h \in DOMAIN compileLayer :
              h \notin DOMAIN compileLayer' => RemoveRegistered(h)]_vars

\* C16 witness: after additions and a removal, two modules are registered
\* and resident.
C16_Witness ==
    /\ RemovedRegistered
    /\ Len(moduleHandles) >= 2
    /\ RegistryMatchesLayer

\* C17: the disposal of a handle wrapper leaves the registry, the resident
\* artifacts and every lookup as they were; a handle leaves the registry
\* only in a GaiaJITRemoveModule call.
C17_DisposeIsNotRemoval ==
    [][/\ \A h \in Handles :
            GaiaJITDisposeModuleHandle(h)
                => /\ moduleHandles' = moduleHandles
                   /\ compileLayer' = compileLayer
                   /\ \A n \in Names : findSymbol(n)' = findSymbol(n)
       /\ Len(moduleHandles') < Len(moduleHandles)
            => \E h \in Handles : RemoveRegistered(h) \/ RemoveUnknown(h)]_vars

\* C17 witness: the wrapper of the newest registered exporter was disposed
\* of, and the name still resolves to that module.
C17_Witness ==
    /\ call.op = "dispose"
    /\ Len(moduleHandles) >= 2
    /\ moduleHandles[Len(moduleHandles)] = call.handle
    /\ \E n \in Names :
        /\ ExportsAt(Len(moduleHandles), mangle(n))
        /\ findSymbol(n) = DefinitionAt(Len(moduleHandles), mangle(n))

\* C18: a lookup leaves the registry and the resident artifacts as they
\* were; a lookup that follows a lookup of the same name returns the same
\* symbol and address; and the lookups of the resolver inside addModule
\* leave the handles registered before in their places.
C18_FindSymbolReadOnly ==
    [][/\ \A n \in Names :
            GaiaJITFindSymbolAddress(n)
                => /\ moduleHandles' = moduleHandles
                   /\ compileLayer' = compileLayer
                   /\ (call.op = "find" /\ call.name = n)
                        => call'.symbol = call.symbol /\ call'.address = call.address
       /\ \A module \in Modules : \A h \in Handles :
            GaiaJITAddModule(module, h) /\ DOMAIN Link(module) # {}
                => SubSeq(moduleHandles', 1, Len(moduleHandles)) = moduleHandles]_vars

\* C18 witness: a lookup was answered by the newer of two registered
\* exporters, which are still registered in their order.
C18_Witness ==
    /\ Found
    /\ Cardinality(Exporters(mangle(call.name))) >= 2
    /\ call.symbol = DefinitionAt(Newest(Exporters(mangle(call.name))), mangle(call.name))
    /\ call.address = call.symbol.address

====
